---- MODULE Spec2Model ----
(***************************************************************************)
(* Model of the three optimizers of villager_optimizations.py              *)
(* (optimize_min_villagers, optimize_min_cost, optimize_priority_tiered)   *)
(* and of the price lookup current_price_for they all rest on.             *)
(*                                                                         *)
(* A villagers mapping is a Python dict: its iteration order is its        *)
(* insertion order, so it is modelled as a sequence of records             *)
(*   [name, cured, enchantments]                                           *)
(* with pairwise distinct names.  A villager's "enchantments" dict is a    *)
(* function whose DOMAIN is the set of keys of the dict.  Enchantment      *)
(* names are the integers 1..n; their order is the order sorted() gives    *)
(* the names.  Villager names are strings; NameOrder lists them in         *)
(* ascending lexicographic order (the empty string first).                 *)
(***************************************************************************)
EXTENDS Integers, Sequences, FiniteSets, TLC

\* ------------------------------------------------------------------------
\* Bounds of the model
\* ------------------------------------------------------------------------
\* priced family: every optimizer, integer prices, every order of the names
PricedVillagers == 2
PricedEnch == 2
MaxPrice == 2
MaxThreshold == 1
\* cover family: coverage patterns large enough for greedy to be suboptimal
CoverVillagers == 3
CoverEnch == 4
\* shape family: one villager, every shape of a price entry
ShapeEnch == 2

\* ------------------------------------------------------------------------
\* Python values
\* ------------------------------------------------------------------------
\* Python's None where a villager name is expected (best_v, best_name, best)
NoName == "<None>"

\* villager names in ascending lexicographic order; "" is a legal JSON key
NameOrder == <<"", "Al", "Bo", "Cy", "Di", "Ed">>

NameRank(n) == CHOOSE i \in 1..Len(NameOrder) : NameOrder[i] = n

\* name < other, Python's comparison of two str
NameLess(a, b) == NameRank(a) < NameRank(b)

\* truth value of a name-or-None: None and the empty string are falsy
Truthy(v) == v # NoName /\ v # ""

\* a price field, or a value returned by current_price_for:
\* None, a str (only 'X' occurs in the data format) or an int
NoneV == [t |-> "None", n |-> 0]
XV == [t |-> "str", n |-> 0]
Num(k) == [t |-> "int", n |-> k]
\* float("inf"), the starting value of best_price
Inf == [t |-> "inf", n |-> 0]

\* an entry of a villager's enchantments dict:
\* a legacy int price or a {"pre": .., "post": ..} dict
Legacy(k) == [kind |-> "int", n |-> k, pre |-> NoneV, post |-> NoneV]
PrePost(a, b) == [kind |-> "dict", n |-> 0, pre |-> a, post |-> b]

\* a < b for int-or-inf values
NumLess(a, b) ==
    IF a.t = "inf" THEN FALSE
    ELSE IF b.t = "inf" THEN TRUE
    ELSE a.n < b.n

\* ------------------------------------------------------------------------
\* Helpers
\* ------------------------------------------------------------------------
\* villagers[villager_name]
Villager(villagers, villager_name) ==
    villagers[CHOOSE i \in 1..Len(villagers) : villagers[i].name = villager_name]

VillagerNames(villagers) == {villagers[i].name : i \in 1..Len(villagers)}

\* val in (None, "X")
IsNoneOrX(val) == val.t = "None" \/ val = XV

\* the other field: 'pre' if cured else 'post'
AppliedFieldSwapped(data, cured) == IF cured THEN data.pre ELSE data.post

\* the price field a dict entry is read at: 'post' if cured else 'pre'
AppliedField(data, cured) == IF cured THEN data.post ELSE data.pre

\* int(val), with TypeError/ValueError turned into None
IntOrNone(val) == IF val.t = "int" THEN Num(val.n) ELSE NoneV

current_price_for(villagers, villager_name, enchant) ==
    LET v == Villager(villagers, villager_name)
    IN  IF enchant \notin DOMAIN v.enchantments THEN NoneV
        ELSE LET data == v.enchantments[enchant]
             IN  IF data.kind = "int" THEN Num(data.n)
                 ELSE LET val == AppliedField(data, v.cured)
                      IN  IF IsNoneOrX(val) THEN NoneV ELSE IntOrNone(val)

\* the enchantments of `remaining` a villager sells at a usable price
Cov(villagers, name, remaining) ==
    {e \in (DOMAIN Villager(villagers, name).enchantments) \cap remaining :
        current_price_for(villagers, name, e) # NoneV}

\* len(cov) >= len(best_cov): the last of the villagers that tie wins
BetterOrEqual(cov, best_cov) == Cardinality(cov) >= Cardinality(best_cov)

\* len(cov) > len(best_cov)
Better(cov, best_cov) == Cardinality(cov) > Cardinality(best_cov)

\* the scan "for name, data in villagers.items()" of the greedy loops, from
\* position i on, with the best pick so far
RECURSIVE BestScan(_, _, _, _)
BestScan(villagers, remaining, i, best) ==
    IF i > Len(villagers) THEN best
    ELSE LET name == villagers[i].name
             cov == Cov(villagers, name, remaining)
         IN  BestScan(villagers, remaining, i + 1,
                      IF Better(cov, best.cov)
                      THEN [v |-> name, cov |-> cov] ELSE best)

\* best_v, best_cov after the scan
BestPick(villagers, remaining) ==
    BestScan(villagers, remaining, 1, [v |-> NoName, cov |-> {}])

\* not best_v or not best_cov
LoopBreaks(best) == ~Truthy(best.v) \/ best.cov = {}

\* every enchantment the villager sells at a usable price, covered already
\* or not
PriceDictAll(villagers, v, ench) ==
    LET all == {e \in DOMAIN Villager(villagers, v).enchantments :
                   current_price_for(villagers, v, e) # NoneV}
    IN  [e \in all |-> current_price_for(villagers, v, e).n]

\* {e: current_price_for(villagers, best_v, e) for e in best_cov}
PriceDict(villagers, v, ench) ==
    [e \in ench |-> current_price_for(villagers, v, e).n]

\* d[k] = val on a dict d
Put(d, k, val) == [x \in DOMAIN d \cup {k} |-> IF x = k THEN val ELSE d[x]]

EmptyDict == [x \in {} |-> 0]

\* every enchantment any villager lists, required or not
RemainingAllListed(villagers, required) ==
    UNION {DOMAIN villagers[i].enchantments : i \in 1..Len(villagers)}

\* remaining = set(required)
Remaining0(villagers, required) == required

\* optimize_min_villagers as a function of its arguments: the loop from a
\* given remaining and optimized on
RECURSIVE MinVillagersLoop(_, _, _)
MinVillagersLoop(villagers, remaining, optimized) ==
    IF remaining = {} THEN optimized
    ELSE LET best == BestPick(villagers, remaining)
         IN  IF LoopBreaks(best) THEN optimized
             ELSE MinVillagersLoop(villagers, remaining \ best.cov,
                      Put(optimized, best.v, PriceDict(villagers, best.v, best.cov)))

optimize_min_villagers(villagers, required) ==
    MinVillagersLoop(villagers, Remaining0(villagers, required), EmptyDict)

\* remaining aliases the caller's set: "-=" shrinks it too
RequiredAliased(required, best_cov) == required \ best_cov

\* the caller's set after "remaining -= best_cov": remaining is a fresh set
\* (set(required), required - assigned), so the caller's set is untouched
RequiredAfter(required, best_cov) == required


\* sorted(s) for a set of enchantment names
RECURSIVE Sorted(_)
Sorted(s) ==
    IF s = {} THEN <<>>
    ELSE LET m == CHOOSE x \in s : \A y \in s : x <= y
         IN  <<m>> \o Sorted(s \ {m})

\* the enchantments assigned in a result dict
Assigned(result) == UNION {DOMAIN result[v] : v \in DOMAIN result}

\* ------------------------------------------------------------------------
\* optimize_min_cost: the scan "for name in villagers" for one enchantment
\* ------------------------------------------------------------------------
\* price < best_price only: among equal prices the first villager wins
CheaperStrict(price, name, best_price, best_name) == NumLess(price, best_price)

\* price < best_price or (price == best_price and
\*                        (best_name is None or name < best_name))
Cheaper(price, name, best_price, best_name) ==
    \/ NumLess(price, best_price)
    \/ /\ price = best_price
       /\ (best_name = NoName \/ NameLess(name, best_name))

RECURSIVE MinCostScan(_, _, _, _)
MinCostScan(villagers, enchant, i, best) ==
    IF i > Len(villagers) THEN best
    ELSE LET name == villagers[i].name
             price == current_price_for(villagers, name, enchant)
         IN  MinCostScan(villagers, enchant, i + 1,
                 IF price = NoneV THEN best
                 ELSE IF Cheaper(price, name, best.best_price, best.best_name)
                      THEN [best_name |-> name, best_price |-> price]
                      ELSE best)

\* best_name, best_price after the scan
MinCostBest(villagers, enchant) ==
    MinCostScan(villagers, enchant, 1, [best_name |-> NoName, best_price |-> Inf])

\* result.setdefault(key, {"enchantments": {}})["enchantments"][enchant] = price
SetDefaultPut(result, key, enchant, price) ==
    Put(result, key,
        Put(IF key \in DOMAIN result THEN result[key] ELSE EmptyDict, enchant, price))

\* ------------------------------------------------------------------------
\* optimize_priority_tiered
\* ------------------------------------------------------------------------
\* enchant_priority.get(e, 10)
DefaultPriority == 10

PriorityOf(enchant_priority, e) ==
    IF e \in DOMAIN enchant_priority THEN enchant_priority[e] ELSE DefaultPriority

\* p < best_price, the test that replaces the cheapest villager
Undercuts(p, best_price) == NumLess(p, best_price)

RECURSIVE CheapestScan(_, _, _, _)
CheapestScan(villagers, e, i, st) ==
    IF i > Len(villagers) THEN st
    ELSE LET v == villagers[i].name
             p == current_price_for(villagers, v, e)
         IN  CheapestScan(villagers, e, i + 1,
                 IF p = NoneV THEN st
                 ELSE IF Undercuts(p, st.best_price)
                      THEN [best |-> v, best_price |-> p, second |-> st.best_price]
                      ELSE IF st.second = NoneV \/ NumLess(p, st.second)
                           THEN [st EXCEPT !.second = p]
                           ELSE st)

\* best, best_price, second
cheapest_and_second(villagers, e) ==
    CheapestScan(villagers, e, 1, [best |-> NoName, best_price |-> Inf, second |-> NoneV])

\* min(prices of e at the chosen villagers, default=None)
ChosenBest(villagers, chosen, e) ==
    LET ps == {current_price_for(villagers, v, e) : v \in DOMAIN chosen} \ {NoneV}
    IN  IF ps = {} THEN NoneV
        ELSE CHOOSE p \in ps : \A q \in ps : p.n <= q.n

\* (a - b) <= p2_threshold for a price a and an int b; inf - b is inf
WithinThreshold(a, b, p2_threshold) ==
    a.t = "int" /\ a.n - b.n <= p2_threshold

\* chosen.setdefault(v, set()).add(e)
ChosenAdd(chosen, v, e) ==
    Put(chosen, v, (IF v \in DOMAIN chosen THEN chosen[v] ELSE {}) \cup {e})

\* the P2 decision for one enchantment: TRUE iff e is added to chosen[v_best]
P2Takes(villagers, chosen, e, p2_threshold) ==
    LET cs == cheapest_and_second(villagers, e)
        p_chosen_best == ChosenBest(villagers, chosen, e)
    IN  IF cs.best \in DOMAIN chosen THEN TRUE
        ELSE IF p_chosen_best # NoneV
                /\ WithinThreshold(p_chosen_best, cs.best_price, p2_threshold)
             THEN FALSE
        ELSE IF cs.second # NoneV
                /\ WithinThreshold(cs.second, cs.best_price, p2_threshold)
             THEN FALSE
        ELSE TRUE


\* ------------------------------------------------------------------------
\* State
\* ------------------------------------------------------------------------
VARIABLES
    villagers,        \* argument: the villagers mapping, in iteration order
    required,         \* argument: the set of required enchantments
    enchant_priority, \* argument of optimize_priority_tiered
    p2_threshold,     \* argument of optimize_priority_tiered
    method,           \* which optimizer main() calls (args.method)
    pc,               \* position in the called optimizer
    remaining,        \* local of the greedy loops
    optimized,        \* local `optimized` / `result`: the value returned
    chosen,           \* local of optimize_priority_tiered
    queue,            \* what is left of the running "for e in sorted(..)" loop
    best_v,           \* best_v of the last greedy iteration that picked
    iters,            \* iterations of the greedy loop that picked, so far
    chosen_at         \* per P2 enchantment: the villagers in chosen when the
                      \* P2 loop reached it

\* villager_optimizer.py
VARIABLES
    data,                 \* the loaded JSON: enchantment -> {villager key: cost},
                          \* both dicts in file order
    villager_enchantments,\* process_data: villager id -> list of (enchantment, cost)
    enchantment_costs,    \* process_data: enchantment -> list of (villager id, cost)
    sorted_villagers,     \* local of optimize_villagers
    selected_villagers,   \* the keys of the dict selected_villagers
    optimal_set,          \* enchantment -> (villager, cost)
    at,                   \* position of the two nested loops of optimize_villagers
    opc                   \* position in main()

ovars == <<data, villager_enchantments, enchantment_costs, sorted_villagers,
           selected_villagers, optimal_set, at, opc>>

tvars == <<villagers, required, enchant_priority, p2_threshold, method, pc,
           remaining, optimized, chosen, queue, best_v, iters, chosen_at>>

vars == <<villagers, required, enchant_priority, p2_threshold, method, pc,
          remaining, optimized, chosen, queue, best_v, iters, chosen_at,
          data, villager_enchantments, enchantment_costs, sorted_villagers,
          selected_villagers, optimal_set, at, opc>>

inputs == <<villagers, required, enchant_priority, p2_threshold, method>>

Methods == {"min-villagers", "min-cost", "priority-tiered"}

\* ------------------------------------------------------------------------
\* Inputs
\* ------------------------------------------------------------------------
\* the dicts with keys in `keys` and values in `vals`
Dicts(keys, vals) == UNION {[d -> vals] : d \in SUBSET keys}

\* the sequences of pairwise distinct names of length 0..n
NameSeqs(names, n) ==
    {s \in UNION {[1..k -> names] : k \in 0..n} :
        \A i, j \in 1..Len(s) : i # j => s[i] # s[j]}

\* the villagers mappings with the given names (in that order)
VillagersOver(ns, cureds, enchDicts) ==
    {[i \in 1..Len(ns) |-> [name |-> ns[i], cured |-> f[i].cured,
                             enchantments |-> f[i].enchantments]] :
        f \in [1..Len(ns) -> [cured : cureds, enchantments : enchDicts]]}

LegacyPrices == {Legacy(k) : k \in 1..MaxPrice}

PriceFields == {NoneV, XV} \cup {Num(k) : k \in 1..MaxPrice}

AllEntries == LegacyPrices \cup {PrePost(a, b) : a \in PriceFields, b \in PriceFields}

\* p2_threshold when main() is given none
DefaultThreshold == 10

\* the arguments only optimize_priority_tiered takes
TieredArgs(ench, m) ==
    IF m = "priority-tiered"
    THEN /\ enchant_priority \in Dicts(ench, {1, 2})
         /\ p2_threshold \in 0..MaxThreshold
    ELSE /\ enchant_priority = EmptyDict
         /\ p2_threshold = DefaultThreshold

Locals0 ==
    /\ pc = "start"
    /\ remaining = {}
    /\ optimized = EmptyDict
    /\ chosen = EmptyDict
    /\ queue = <<>>
    /\ best_v = NoName
    /\ iters = 0
    /\ chosen_at = EmptyDict

\* every optimizer on legacy integer prices, the names in every order
InitPriced ==
    LET ench == 1..PricedEnch
        names == {NameOrder[i] : i \in 1..(PricedVillagers + 1)}
    IN  /\ \E ns \in NameSeqs(names, PricedVillagers) :
               villagers \in VillagersOver(ns, {FALSE}, Dicts(ench, LegacyPrices))
        /\ required \in SUBSET ench
        /\ method \in Methods
        /\ TieredArgs(ench, method)

\* the greedy loops on every coverage pattern of a larger instance
InitCover ==
    LET ench == 1..CoverEnch
        ns == [i \in 1..CoverVillagers |-> NameOrder[i + 1]]
    IN  /\ villagers \in VillagersOver(ns, {FALSE}, Dicts(ench, {Legacy(1)}))
        /\ required = ench
        /\ method \in {"min-villagers", "priority-tiered"}
        /\ enchant_priority = EmptyDict
        /\ p2_threshold = DefaultThreshold

\* every optimizer on one villager with price entries of every shape
InitShape ==
    LET ench == 1..ShapeEnch
    IN  /\ villagers \in VillagersOver(<<"Al">>, BOOLEAN, Dicts(ench, AllEntries))
        /\ required = ench
        /\ method \in Methods
        /\ TieredArgs(ench, method)

\* villager_optimizer.py is not running
OptIdle ==
    /\ data = <<>>
    /\ villager_enchantments = <<>>
    /\ enchantment_costs = <<>>
    /\ sorted_villagers = <<>>
    /\ selected_villagers = {}
    /\ optimal_set = EmptyDict
    /\ at = <<1, 1>>
    /\ opc = "idle"

Init == Locals0 /\ (InitPriced \/ InitCover \/ InitShape) /\ OptIdle

\* ------------------------------------------------------------------------
\* optimize_min_villagers
\* ------------------------------------------------------------------------
CallMinVillagers ==
    /\ pc = "start" /\ method = "min-villagers"
    /\ remaining' = Remaining0(villagers, required)
    /\ optimized' = EmptyDict
    /\ pc' = "min_villagers"
    /\ UNCHANGED <<inputs, chosen, queue, best_v, iters, chosen_at>>
    /\ UNCHANGED ovars

\* one iteration of "while remaining" that does not break
MinVillagersPick ==
    /\ pc = "min_villagers" /\ remaining # {}
    /\ LET best == BestPick(villagers, remaining)
       IN  /\ ~LoopBreaks(best)
           /\ optimized' = Put(optimized, best.v, PriceDict(villagers, best.v, best.cov))
           /\ remaining' = remaining \ best.cov
           /\ required' = RequiredAfter(required, best.cov)
           /\ best_v' = best.v
    /\ iters' = iters + 1
    /\ UNCHANGED <<villagers, enchant_priority, p2_threshold, method, pc,
                 chosen, queue, chosen_at>>
    /\ UNCHANGED ovars

\* the loop ends (remaining empty, or break) and optimized is returned
MinVillagersReturn ==
    /\ pc = "min_villagers"
    /\ remaining = {} \/ LoopBreaks(BestPick(villagers, remaining))
    /\ pc' = "done"
    /\ UNCHANGED <<inputs, remaining, optimized, chosen, queue, best_v, iters, chosen_at>>
    /\ UNCHANGED ovars

\* ------------------------------------------------------------------------
\* optimize_min_cost
\* ------------------------------------------------------------------------
CallMinCost ==
    /\ pc = "start" /\ method = "min-cost"
    /\ optimized' = EmptyDict
    /\ queue' = Sorted(required)
    /\ pc' = "min_cost"
    /\ UNCHANGED <<inputs, remaining, chosen, best_v, iters, chosen_at>>
    /\ UNCHANGED ovars

\* one iteration of "for enchant in sorted(required)"
MinCostStep ==
    /\ pc = "min_cost" /\ queue # <<>>
    /\ LET enchant == Head(queue)
           b == MinCostBest(villagers, enchant)
       IN  optimized' = IF b.best_name # NoName
                        THEN SetDefaultPut(optimized, b.best_name, enchant, b.best_price.n)
                        ELSE optimized
    /\ queue' = Tail(queue)
    /\ UNCHANGED <<inputs, pc, remaining, chosen, best_v, iters, chosen_at>>
    /\ UNCHANGED ovars

MinCostReturn ==
    /\ pc = "min_cost" /\ queue = <<>>
    /\ pc' = "done"
    /\ UNCHANGED <<inputs, remaining, optimized, chosen, queue, best_v, iters, chosen_at>>
    /\ UNCHANGED ovars

\* ------------------------------------------------------------------------
\* optimize_priority_tiered
\* ------------------------------------------------------------------------
p1 == {e \in required : PriorityOf(enchant_priority, e) = 1}
p2 == {e \in required : PriorityOf(enchant_priority, e) = 2}

CallPriorityTiered ==
    /\ pc = "start" /\ method = "priority-tiered"
    /\ chosen' = EmptyDict
    /\ optimized' = EmptyDict
    /\ queue' = Sorted(p1)
    /\ pc' = "p1"
    /\ UNCHANGED <<inputs, remaining, best_v, iters, chosen_at>>
    /\ UNCHANGED ovars

\* one iteration of "for e in sorted(p1)"
TieredP1Step ==
    /\ pc = "p1" /\ queue # <<>>
    /\ LET e == Head(queue)
           v_best == cheapest_and_second(villagers, e).best
       IN  chosen' = IF Truthy(v_best) THEN ChosenAdd(chosen, v_best, e) ELSE chosen
    /\ queue' = Tail(queue)
    /\ UNCHANGED <<inputs, pc, remaining, optimized, best_v, iters, chosen_at>>
    /\ UNCHANGED ovars

TieredP1Done ==
    /\ pc = "p1" /\ queue = <<>>
    /\ queue' = Sorted(p2)
    /\ pc' = "p2"
    /\ UNCHANGED <<inputs, remaining, optimized, chosen, best_v, iters, chosen_at>>
    /\ UNCHANGED ovars

\* one iteration of "for e in sorted(p2)"
TieredP2Step ==
    /\ pc = "p2" /\ queue # <<>>
    /\ LET e == Head(queue)
           v_best == cheapest_and_second(villagers, e).best
       IN  chosen' = IF Truthy(v_best) /\ P2Takes(villagers, chosen, e, p2_threshold)
                     THEN ChosenAdd(chosen, v_best, e)
                     ELSE chosen
    /\ chosen_at' = Put(chosen_at, Head(queue), DOMAIN chosen)
    /\ queue' = Tail(queue)
    /\ UNCHANGED <<inputs, pc, remaining, optimized, best_v, iters>>
    /\ UNCHANGED ovars

\* optimized is built from chosen; "remaining = required - assigned"
TieredP2Done ==
    /\ pc = "p2" /\ queue = <<>>
    /\ LET built == [v \in DOMAIN chosen |-> PriceDict(villagers, v, chosen[v])]
       IN  /\ optimized' = built
           /\ remaining' = required \ Assigned(built)
    /\ pc' = "cover"
    /\ UNCHANGED <<inputs, chosen, queue, best_v, iters, chosen_at>>
    /\ UNCHANGED ovars

\* one iteration of the "cover remaining" loop that does not break
TieredCoverPick ==
    /\ pc = "cover" /\ remaining # {}
    /\ LET best == BestPick(villagers, remaining)
           old == IF best.v \in DOMAIN optimized THEN optimized[best.v] ELSE EmptyDict
           new == PriceDict(villagers, best.v, best.cov)
       IN  /\ ~LoopBreaks(best)
           /\ optimized' = Put(optimized, best.v,
                  [e \in DOMAIN old \cup best.cov |->
                      IF e \in best.cov THEN new[e] ELSE old[e]])
           /\ remaining' = remaining \ best.cov
           /\ required' = RequiredAfter(required, best.cov)
           /\ best_v' = best.v
    /\ iters' = iters + 1
    /\ UNCHANGED <<villagers, enchant_priority, p2_threshold, method, pc,
                 chosen, queue, chosen_at>>
    /\ UNCHANGED ovars

TieredReturn ==
    /\ pc = "cover"
    /\ remaining = {} \/ LoopBreaks(BestPick(villagers, remaining))
    /\ pc' = "done"
    /\ UNCHANGED <<inputs, remaining, optimized, chosen, queue, best_v, iters, chosen_at>>
    /\ UNCHANGED ovars

\* ------------------------------------------------------------------------
Next ==
    \/ CallMinVillagers \/ MinVillagersPick \/ MinVillagersReturn
    \/ CallMinCost \/ MinCostStep \/ MinCostReturn
    \/ CallPriorityTiered \/ TieredP1Step \/ TieredP1Done
    \/ TieredP2Step \/ TieredP2Done \/ TieredCoverPick \/ TieredReturn

Spec == Init /\ [][Next]_vars

\* the optimizers are straight-line sequential code: a step that can be
\* taken is taken
FairSpec == Spec /\ WF_vars(Next)


\* ------------------------------------------------------------------------
\* villager_optimizer.py
\*
\* data is the JSON object {enchantment: {villager key: cost}}: a sequence of
\* [enchantment, villagers], villagers a sequence of [key, cost] with
\* distinct keys, both in file order.  A dict of process_data is a sequence
\* of its items in insertion order.
\* ------------------------------------------------------------------------
OptKeys == 3
OptEnch == 2
OptCost == 2

\* villager keys as they may stand in the file, and int(villager) of each
VillagerKeys == <<"1", "2", "01", "3", "02", "4">>
KeyInts == <<1, 2, 1, 3, 2, 4>>

\* int(villager)
IntOf(key) == KeyInts[CHOOSE i \in 1..Len(VillagerKeys) : VillagerKeys[i] = key]

\* the (enchantment, villager_id, cost) triples in the order the two nested
\* loops of process_data visit them
RECURSIVE Visits(_)
Visits(d) ==
    IF d = <<>> THEN <<>>
    ELSE [j \in 1..Len(d[1].villagers) |->
             [enchantment |-> d[1].enchantment,
              villager_id |-> IntOf(d[1].villagers[j].key),
              cost |-> d[1].villagers[j].cost]]
         \o Visits(Tail(d))

\* the keys of villager_enchantments in insertion order
RECURSIVE FirstSeen(_, _)
FirstSeen(visits, seen) ==
    IF visits = <<>> THEN <<>>
    ELSE IF visits[1].villager_id \in seen THEN FirstSeen(Tail(visits), seen)
    ELSE <<visits[1].villager_id>>
         \o FirstSeen(Tail(visits), seen \cup {visits[1].villager_id})

\* villager_enchantments[villager_id] after process_data
OffersOf(visits, id) ==
    LET mine == SelectSeq(visits, LAMBDA t : t.villager_id = id)
    IN  [j \in 1..Len(mine) |->
            [enchantment |-> mine[j].enchantment, cost |-> mine[j].cost]]

\* enchantment_costs[enchantment] after process_data
CostsOf(visits, e) ==
    LET its == SelectSeq(visits, LAMBDA t : t.enchantment = e)
    IN  [j \in 1..Len(its) |->
            [villager_id |-> its[j].villager_id, cost |-> its[j].cost]]

process_data(d) ==
    LET visits == Visits(d)
        ids == FirstSeen(visits, {})
    IN  [villager_enchantments |->
             [j \in 1..Len(ids) |->
                 [villager |-> ids[j], enchantments |-> OffersOf(visits, ids[j])]],
         enchantment_costs |->
             [j \in 1..Len(d) |->
                 [enchantment |-> d[j].enchantment,
                  costs |-> CostsOf(visits, d[j].enchantment)]]]

\* x goes before y under key=len(x[1]), reverse=True
LongerFirst(x, y) == Len(x.enchantments) > Len(y.enchantments)

\* sorted(items, key=..., reverse=True): stable, so of the items that no
\* item goes before, the first comes first
RECURSIVE SortedByLen(_)
SortedByLen(items) ==
    IF items = <<>> THEN <<>>
    ELSE LET k == CHOOSE i \in 1..Len(items) :
                      /\ \A j \in 1..Len(items) : ~LongerFirst(items[j], items[i])
                      /\ \A j \in 1..(i - 1) : LongerFirst(items[i], items[j])
         IN  <<items[k]>>
             \o SortedByLen([j \in 1..(Len(items) - 1) |->
                                IF j < k THEN items[j] ELSE items[j + 1]])

\* cost <= previous_cost: an equal offer displaces the holder too
DisplacesOrEqual(cost, previous_cost) == cost <= previous_cost

\* cost < previous_cost
Displaces(cost, previous_cost) == cost < previous_cost

\* min(cost for _, cost in costs) if costs else None; None is 0 here
BestCost(costs) ==
    IF costs = <<>> THEN 0
    ELSE LET cs == {costs[j].cost : j \in 1..Len(costs)}
         IN  CHOOSE c \in cs : \A x \in cs : c <= x

get_best_costs(ec) ==
    [e \in {ec[j].enchantment : j \in 1..Len(ec)} |->
        BestCost(ec[CHOOSE j \in 1..Len(ec) : ec[j].enchantment = e].costs)]

\* sorted(all_villagers - used_villagers), as a set
find_disposable_villagers(ve, selected) ==
    {ve[j].villager : j \in 1..Len(ve)} \ selected

\* the files main() may be given
KeySeqs ==
    {s \in UNION {[1..k -> {VillagerKeys[i] : i \in 1..OptKeys}] : k \in 0..OptKeys} :
        \A i, j \in 1..Len(s) : i # j => s[i] # s[j]}

VillagerDicts ==
    UNION {{[j \in 1..Len(s) |-> [key |-> s[j], cost |-> c[j]]] :
               c \in [1..Len(s) -> 1..OptCost]} : s \in KeySeqs}

OptInit ==
    /\ Locals0
    /\ villagers = <<>> /\ required = {} /\ method = "none"
    /\ enchant_priority = EmptyDict /\ p2_threshold = DefaultThreshold
    /\ \E f \in [1..OptEnch -> VillagerDicts] :
           data = [e \in 1..OptEnch |-> [enchantment |-> e, villagers |-> f[e]]]
    /\ villager_enchantments = <<>>
    /\ enchantment_costs = <<>>
    /\ sorted_villagers = <<>>
    /\ selected_villagers = {}
    /\ optimal_set = EmptyDict
    /\ at = <<1, 1>>
    /\ opc = "loaded"

\* villager_enchantments, enchantment_costs = process_data(data)
ProcessData ==
    /\ opc = "loaded"
    /\ villager_enchantments' = process_data(data).villager_enchantments
    /\ enchantment_costs' = process_data(data).enchantment_costs
    /\ opc' = "processed"
    /\ UNCHANGED <<data, sorted_villagers, selected_villagers, optimal_set, at>>
    /\ UNCHANGED tvars

\* optimize_villagers is called: the sort and the two empty dicts
CallOptimizeVillagers ==
    /\ opc = "processed"
    /\ sorted_villagers' = SortedByLen(villager_enchantments)
    /\ selected_villagers' = {}
    /\ optimal_set' = EmptyDict
    /\ at' = <<1, 1>>
    /\ opc' = "optimize"
    /\ UNCHANGED <<data, villager_enchantments, enchantment_costs>>
    /\ UNCHANGED tvars

\* one iteration of "for enchantment, cost in enchantments"
OptimizeStep ==
    /\ opc = "optimize" /\ at[1] <= Len(sorted_villagers)
    /\ LET villager == sorted_villagers[at[1]].villager
           enchantments == sorted_villagers[at[1]].enchantments
           enchantment == enchantments[at[2]].enchantment
           cost == enchantments[at[2]].cost
           taken == [villager |-> villager, cost |-> cost]
       IN  /\ IF enchantment \notin DOMAIN optimal_set
              THEN /\ optimal_set' = Put(optimal_set, enchantment, taken)
                   /\ selected_villagers' = selected_villagers \cup {villager}
              ELSE IF Displaces(cost, optimal_set[enchantment].cost)
              THEN /\ optimal_set' = Put(optimal_set, enchantment, taken)
                   /\ selected_villagers' = selected_villagers
                          \cup {villager, optimal_set[enchantment].villager}
              ELSE UNCHANGED <<optimal_set, selected_villagers>>
           /\ at' = IF at[2] < Len(enchantments)
                    THEN <<at[1], at[2] + 1>> ELSE <<at[1] + 1, 1>>
    /\ UNCHANGED <<data, villager_enchantments, enchantment_costs, sorted_villagers, opc>>
    /\ UNCHANGED tvars

\* return selected_villagers, optimal_set
OptimizeReturn ==
    /\ opc = "optimize" /\ at[1] > Len(sorted_villagers)
    /\ opc' = "done"
    /\ UNCHANGED <<data, villager_enchantments, enchantment_costs, sorted_villagers,
                   selected_villagers, optimal_set, at>>
    /\ UNCHANGED tvars

OptNext == ProcessData \/ CallOptimizeVillagers \/ OptimizeStep \/ OptimizeReturn

OptSpec == OptInit /\ [][OptNext]_vars

\* ------------------------------------------------------------------------
\* What the claims speak of, stated on the input data alone
\* ------------------------------------------------------------------------
Done(m) == pc = "done" /\ method = m

\* villager i lists e, and its entry is a legacy integer or its applicable
\* field ('post' when cured, 'pre' when not) is neither None nor 'X'
Usable(i, e) ==
    /\ e \in DOMAIN villagers[i].enchantments
    /\ LET d == villagers[i].enchantments[e]
       IN  \/ d.kind = "int"
           \/ /\ villagers[i].cured /\ d.post # NoneV /\ d.post # XV
           \/ /\ ~villagers[i].cured /\ d.pre # NoneV /\ d.pre # XV

\* the price villager i sells e at, when Usable(i, e)
Price(i, e) ==
    LET d == villagers[i].enchantments[e]
    IN  IF d.kind = "int" THEN d.n
        ELSE IF villagers[i].cured THEN d.post.n ELSE d.pre.n

Positions == 1..Len(villagers)

PositionOf(name) == CHOOSE i \in Positions : villagers[i].name = name

\* the enchantments of s that villager i sells at a usable price
Offers(i, s) == {e \in s : Usable(i, e)}

\* the required enchantments some villager sells at a usable price
Obtainable == {e \in required : \E i \in Positions : Usable(i, e)}

\* ------------------------------------------------------------------------
\* C1  Optimality: the selection optimize_min_villagers returns has minimum
\*     cardinality among the sets of villagers whose usable enchantments
\*     cover the required enchantments that the selection covers.
\* ------------------------------------------------------------------------
MinimumCardinality ==
    Done("min-villagers") =>
        \A S \in SUBSET Positions :
            Assigned(optimized) \subseteq UNION {Offers(i, required) : i \in S}
                => Cardinality(S) >= Cardinality(DOMAIN optimized)

\* ------------------------------------------------------------------------
\* C2  Feasibility of result: the union of the enchantments assigned by
\*     optimize_min_villagers is exactly the set of required enchantments
\*     that some villager offers at a usable price (so it is the required
\*     set whenever every required enchantment is offered).
\* ------------------------------------------------------------------------
CoversObtainable ==
    Done("min-villagers") => Assigned(optimized) = Obtainable

\* ------------------------------------------------------------------------
\* C3  Infeasibility detection: when some required enchantment is offered by
\*     no villager at a usable price, optimize_min_villagers returns no
\*     partial cover, and what it returns differs from what a successful
\*     call returns (the call for the obtainable part of required).
\* ------------------------------------------------------------------------
InfeasibleReported ==
    (Done("min-villagers") /\ Obtainable # required) =>
        /\ Assigned(optimized) = {}
        /\ optimized # optimize_min_villagers(villagers, Obtainable)


\* ------------------------------------------------------------------------
\* C4  Empty target: with an empty required set every optimizer returns an
\*     empty selection and selects no villager on the way.
\* ------------------------------------------------------------------------
EmptyTarget ==
    (pc = "done" /\ required = {}) =>
        optimized = EmptyDict /\ chosen = EmptyDict /\ iters = 0

\* priority-tiered has returned for an empty target although a villager
\* sells something at a usable price
EmptyTargetReached ==
    /\ Done("priority-tiered") /\ required = {}
    /\ \E i \in Positions : \E e \in DOMAIN villagers[i].enchantments : Usable(i, e)

\* ------------------------------------------------------------------------
\* C5  Greedy selection rule and tie-break: every iteration of the greedy
\*     loop of optimize_min_villagers and of the 'cover remaining' loop of
\*     optimize_priority_tiered that picks a villager picks one whose number
\*     of usable, still-uncovered required enchantments is maximal over all
\*     villagers, and the earliest such villager in the mapping's order.
\* ------------------------------------------------------------------------
GreedyPicksEarliestMax ==
    [][(pc \in {"min_villagers", "cover"} /\ iters' = iters + 1) =>
          LET i == PositionOf(best_v')
              gain(j) == Cardinality(Offers(j, remaining))
          IN  \A j \in Positions :
                  /\ gain(j) <= gain(i)
                  /\ j < i => gain(j) < gain(i)]_vars

\* the first villager was picked although a later one ties with it
TieBrokenByOrder ==
    /\ pc = "min_villagers" /\ iters = 1 /\ Len(villagers) >= 2
    /\ best_v = villagers[1].name
    /\ Offers(1, required) # {}
    /\ \E j \in 2..Len(villagers) :
           Cardinality(Offers(j, required)) = Cardinality(Offers(1, required))

\* ------------------------------------------------------------------------
\* C6  No input mutation: no step of an optimizer changes the villagers
\*     mapping (enchantments and cured flags included) or the required set.
\* ------------------------------------------------------------------------
InputsUnchanged ==
    [][villagers' = villagers /\ required' = required]_vars

\* a greedy loop has removed enchantments from remaining and returned
GreedyLoopRan ==
    pc = "done" /\ iters >= 2 /\ remaining = {}

\* ------------------------------------------------------------------------
\* C7  Usability: an enchantment is assigned to a villager (in chosen or in
\*     the result, by any optimizer) only if the villager lists it and its
\*     entry is a legacy integer or its applicable field ('post' when cured,
\*     'pre' when not) is neither None nor 'X'.
\* ------------------------------------------------------------------------
OnlyUsableAssigned ==
    /\ \A v \in DOMAIN optimized : \A e \in DOMAIN optimized[v] :
           Usable(PositionOf(v), e)
    /\ \A v \in DOMAIN chosen : \A e \in chosen[v] :
           Usable(PositionOf(v), e)

\* an uncured villager whose entry for enchantment 1 has 'pre' = 'X' and a
\* number as 'post' is in the result, for enchantment 2 alone
OtherFieldIgnored ==
    /\ pc = "done" /\ Len(villagers) = 1 /\ ~villagers[1].cured
    /\ required = {1, 2}
    /\ DOMAIN villagers[1].enchantments = {1, 2}
    /\ villagers[1].enchantments[1] = PrePost(XV, Num(1))
    /\ DOMAIN optimized = {villagers[1].name}
    /\ DOMAIN optimized[villagers[1].name] = {2}


\* ------------------------------------------------------------------------
\* C8  Termination with strict progress: every iteration of the greedy loop
\*     of optimize_min_villagers that does not leave the loop removes at
\*     least one enchantment from remaining and adds none, the loop runs at
\*     most |required| such iterations, and it ends with remaining empty or
\*     with no villager offering a remaining enchantment at a usable price.
\* ------------------------------------------------------------------------
GreedyProgressAndEnd ==
    [][pc = "min_villagers" =>
          /\ iters' = iters + 1 =>
                 remaining' \subseteq remaining /\ remaining' # remaining
          /\ iters' <= Cardinality(required)
          /\ pc' = "done" =>
                 \/ remaining = {}
                 \/ \A i \in Positions : Offers(i, remaining) = {}]_vars

\* ------------------------------------------------------------------------
\* C9  No redundant villager: every villager in the result of
\*     optimize_min_villagers is assigned at least one required enchantment
\*     and the sets assigned to distinct villagers are pairwise disjoint.
\* ------------------------------------------------------------------------
NoRedundantVillager ==
    method = "min-villagers" =>
        \A v \in DOMAIN optimized :
            /\ DOMAIN optimized[v] # {}
            /\ DOMAIN optimized[v] \subseteq required
            /\ \A w \in DOMAIN optimized \ {v} :
                   DOMAIN optimized[v] \cap DOMAIN optimized[w] = {}

\* P1 = {A, B, C}, P2 = {A}, P3 = {D}: the result is {P1, P3}
RedundantVillagerSkipped ==
    /\ Done("min-villagers") /\ Len(villagers) = 3 /\ required = 1..4
    /\ Offers(1, required) = {1, 2, 3}
    /\ Offers(2, required) = {1}
    /\ Offers(3, required) = {4}
    /\ DOMAIN optimized = {villagers[1].name, villagers[3].name}

\* ------------------------------------------------------------------------
\* C10 optimize_min_cost: every required enchantment that some villager
\*     offers at a usable price is in the result under exactly one villager,
\*     at the minimum usable price, and that villager is the one with the
\*     lexicographically smallest name among those offering that price;
\*     required enchantments without a usable price and enchantments outside
\*     required are absent from the result.
\* ------------------------------------------------------------------------
MinCostCheapestSmallestName ==
    Done("min-cost") =>
        /\ Assigned(optimized) = Obtainable
        /\ \A e \in Obtainable :
               LET sellers == {i \in Positions : Usable(i, e)}
                   cheapest == {i \in sellers :
                                   \A j \in sellers : Price(i, e) <= Price(j, e)}
                   w == CHOOSE i \in cheapest : \A j \in cheapest :
                            NameRank(villagers[i].name) <= NameRank(villagers[j].name)
               IN  /\ \A v \in DOMAIN optimized :
                          e \in DOMAIN optimized[v] <=> v = villagers[w].name
                   /\ optimized[villagers[w].name][e] = Price(w, e)

\* two villagers sell enchantment 1 at the same price and the second in the
\* mapping's order, whose name is the smaller, has it in the result
TieBrokenByName ==
    /\ Done("min-cost") /\ Len(villagers) = 2 /\ 1 \in required
    /\ Usable(1, 1) /\ Usable(2, 1) /\ Price(1, 1) = Price(2, 1)
    /\ NameRank(villagers[2].name) < NameRank(villagers[1].name)
    /\ villagers[2].name \in DOMAIN optimized
    /\ 1 \in DOMAIN optimized[villagers[2].name]


\* ------------------------------------------------------------------------
\* What the priority-tiered claims speak of
\* ------------------------------------------------------------------------
Sellers(e) == {i \in Positions : Usable(i, e)}

\* the cheapest villager of e: the earliest in the mapping's order of those
\* that sell e at the minimum usable price
CheapestSeller(e) ==
    CHOOSE i \in Sellers(e) :
        \A j \in Sellers(e) :
            Price(i, e) < Price(j, e) \/ (Price(i, e) = Price(j, e) /\ i <= j)

\* no second usable price, or the second-cheapest price is more than
\* p2_threshold above the cheapest
GapExceedsThreshold(e) ==
    \A j \in Sellers(e) \ {CheapestSeller(e)} :
        Price(j, e) - Price(CheapestSeller(e), e) > p2_threshold

AssignedTo(name, e) == name \in DOMAIN optimized /\ e \in DOMAIN optimized[name]

\* ------------------------------------------------------------------------
\* C11 P2 rule: a required enchantment of priority 2 with a usable price is
\*     assigned in the final result of optimize_priority_tiered to its
\*     cheapest villager whenever that villager was among the chosen
\*     villagers when the enchantment was processed, or the gap between the
\*     second-cheapest and the cheapest price exceeds p2_threshold, or there
\*     is no second price.
\* ------------------------------------------------------------------------
P2GoesToCheapest ==
    Done("priority-tiered") =>
        \A e \in p2 :
            (/\ Sellers(e) # {}
             /\ \/ villagers[CheapestSeller(e)].name \in chosen_at[e]
                \/ GapExceedsThreshold(e))
                => AssignedTo(villagers[CheapestSeller(e)].name, e)


\* ------------------------------------------------------------------------
\* C12 'keep with chosen': a priority-2 enchantment that the P2 loop does
\*     not give to its cheapest villager because a villager already chosen
\*     offers it within p2_threshold of the cheapest price is assigned in
\*     the final result to a villager chosen in the P1/P2 stage, not to one
\*     the 'cover remaining' loop adds.
\* ------------------------------------------------------------------------
\* the P2 loop reached its 'keep with chosen' branch for e: its cheapest
\* villager (one the loop does not skip for an empty name) was not chosen
\* and a chosen villager sells e within p2_threshold of the cheapest price
KeptWithChosen(e) ==
    /\ e \in DOMAIN chosen_at /\ Sellers(e) # {}
    /\ villagers[CheapestSeller(e)].name # ""
    /\ villagers[CheapestSeller(e)].name \notin chosen_at[e]
    /\ \E i \in Sellers(e) :
           /\ villagers[i].name \in chosen_at[e]
           /\ Price(i, e) - Price(CheapestSeller(e), e) <= p2_threshold

KeptStaysWithChosen ==
    Done("priority-tiered") =>
        \A e \in p2 :
            KeptWithChosen(e) => \E v \in DOMAIN chosen : AssignedTo(v, e)


\* ------------------------------------------------------------------------
\* C13 Coverage of optimize_priority_tiered: every required enchantment that
\*     some villager offers at a usable price is assigned in the final
\*     result to exactly one villager, no enchantment outside required is
\*     assigned, and every villager in the result has an enchantment.
\* ------------------------------------------------------------------------
TieredCoversObtainable ==
    Done("priority-tiered") =>
        /\ Assigned(optimized) = Obtainable
        /\ \A v \in DOMAIN optimized :
               /\ DOMAIN optimized[v] # {}
               /\ \A w \in DOMAIN optimized \ {v} :
                      DOMAIN optimized[v] \cap DOMAIN optimized[w] = {}


\* ------------------------------------------------------------------------
\* What the claim on villager_optimizer.py speaks of, stated on data
\* ------------------------------------------------------------------------
\* the (enchantment, villager, cost) offers of the file
FileOffers ==
    UNION {{[enchantment |-> data[i].enchantment,
             villager |-> IntOf(data[i].villagers[j].key),
             cost |-> data[i].villagers[j].cost] :
               j \in 1..Len(data[i].villagers)} : i \in 1..Len(data)}

FileVillagers == {o.villager : o \in FileOffers}

OfferedEnchantments == {o.enchantment : o \in FileOffers}

\* the minimum cost over all villagers offering e
MinCost(e) ==
    CHOOSE c \in {o.cost : o \in {x \in FileOffers : x.enchantment = e}} :
        \A o \in FileOffers : o.enchantment = e => c <= o.cost

\* the villagers optimal_set assigns an enchantment to
Holders == {optimal_set[e].villager : e \in DOMAIN optimal_set}

\* the offers in the order optimize_villagers processes them
RECURSIVE Processed(_)
Processed(sv) ==
    IF sv = <<>> THEN <<>>
    ELSE [j \in 1..Len(sv[1].enchantments) |->
             [villager |-> sv[1].villager,
              enchantment |-> sv[1].enchantments[j].enchantment,
              cost |-> sv[1].enchantments[j].cost]]
         \o Processed(Tail(sv))

\* villager v held an assignment at some point of the run: one of its offers
\* was, when processed, the first for its enchantment or strictly cheaper
\* than every offer for it processed before
HeldOnce(v) ==
    LET ps == Processed(sorted_villagers)
    IN  \E k \in 1..Len(ps) :
            /\ ps[k].villager = v
            /\ \A h \in 1..(k - 1) :
                   ps[h].enchantment = ps[k].enchantment => ps[k].cost < ps[h].cost

====
